---- MODULE Spec2Model ----
(***************************************************************************)
(* Resource-supervision layer of the my-kanban desktop backend:            *)
(*   - TerminalManager      (src-tauri/src/terminal.rs)                    *)
(*   - FileWatcherManager   (src-tauri/src/file_watcher.rs)                *)
(*   - git shell helpers    (src-tauri/src/git_shell.rs)                   *)
(* Each component has its own specification (SpecTerm and SpecSpawn,      *)
(* SpecWatch, SpecRun, SpecGit, SpecStatus); the variables of the others   *)
(* stay at their initial values.                                           *)
(***************************************************************************)
EXTENDS Integers, Sequences, FiniteSets, TLC

VARIABLES
    \* ---- terminal.rs ----
    sessions,    \* TerminalManager.sessions: session id -> pty whose writer it owns
    sessLock,    \* holder of the sessions mutex ("none" when free)
    tpc,         \* position of each command thread inside its handler
    tcall,       \* the call each command thread is running
    tret,        \* the call that returned last, and its result
    nextId,      \* number of session ids generated so far (Uuid::new_v4)
    shell,       \* per pty: the shell child process
    reader,      \* per pty: the background reader thread
    ptyIn,       \* per pty: the data written to the pty input, in order
    produced,    \* per pty: number of output chunks the shell has written
    consumed,    \* per pty: number of output chunks the reader has read
    termEvents,  \* "terminal-output-<id>" events emitted, in order
    closed,      \* history: ids for which close_terminal has returned
    ops,         \* number of commands and outside events so far
    \* ---- file_watcher.rs ----
    watchers,    \* FileWatcherManager.watchers: key -> the debouncer it owns
    debs,        \* the debouncers that exist: id -> what their callback captured
    watchLock,   \* holder of the watchers mutex ("none" when free)
    wpc,         \* position of each command thread inside its handler
    wcall,       \* the call each command thread is running
    wret,        \* the call that returned last, and its result
    nextDeb,     \* number of debouncers created so far
    lastEmits,   \* per debouncer: the events its callback emitted for the last batch
    clearedKeys, \* history: keys that an unwatch_all has removed
    \* ---- git_shell.rs: run_git_command ----
    rpc,         \* position inside run_git_command
    rcall,       \* its arguments (the timeout in seconds)
    child,       \* the git child process of the call
    pipeOut,     \* bytes in the stdout pipe the parent has not read
    pipeErr,     \* bytes in the stderr pipe the parent has not read
    rret,        \* what the last call returned
    \* ---- git_shell.rs: the commands built on run_git_command ----
    gpc,         \* the command that is running and its position
    ginv,        \* the git invocations of the running (or last) command
    gret,        \* what the last command returned
    upstream,    \* repository: the branches that have an upstream configured
    curBranch,   \* repository: the branch that is checked out
    tracked,     \* history: branches for which a git_push "push -u" succeeded
    \* ---- git_shell.rs: git_get_status ----
    statusIn,    \* the lines of `git status --porcelain`
    statusOut    \* the GitStatus computed from them

termVars == <<sessions, sessLock, tpc, tcall, tret, nextId, shell, reader,
              ptyIn, produced, consumed, termEvents, closed>>

watchVars == <<watchers, debs, watchLock, wpc, wcall, wret, nextDeb, lastEmits,
               clearedKeys>>

runVars == <<rpc, rcall, child, pipeOut, pipeErr, rret>>

gitVars == <<gpc, ginv, gret, upstream, curBranch, tracked>>

statusVars == <<statusIn, statusOut>>

vars == <<ops, termVars, watchVars, runVars, gitVars, statusVars>>

(***************************************************************************)
(* Bounds of the model.                                                    *)
(***************************************************************************)
MaxOps == 5
PipeCap == 1
MaxLines == 2

Threads == {"t1", "t2"}
Data == {"a", "b"}

PtyIds == 1..MaxOps
UnknownId == 0

OkRes == "Ok"
SessionNotFound == "Session not found"
NoShellFound == "No suitable shell found (tried: $SHELL, zsh, bash, sh)"
OpenPtyFailed == "Failed to open PTY"
SpawnShellFailed == "Failed to spawn shell"
IoError == "io error"

NoCall == [op |-> "none", sid |-> UnknownId, data |-> "", shellName |-> ""]
NoRet == [op |-> "none", sid |-> UnknownId, res |-> ""]

\* What the handlers of one component leave alone.
notTermVars == <<watchVars, runVars, gitVars, statusVars>>
notWatchVars == <<termVars, runVars, gitVars, statusVars>>
notRunVars == <<termVars, watchVars, gitVars, statusVars>>
notGitVars == <<termVars, watchVars, runVars, statusVars>>
notStatusVars == <<ops, termVars, watchVars, runVars, gitVars>>

(***************************************************************************)
(* terminal.rs                                                             *)
(***************************************************************************)
ShellVarStates == {"unset", "empty", "missing", "exists"}
FallbackShells == <<"zsh", "bash", "sh">>
ShellEnvs == [shellVar : ShellVarStates, onPath : SUBSET {"zsh", "bash", "sh"}]

\* terminal.rs:50-68: $SHELL when non-empty and present on disk, else the
\* first fallback found on the search path, else no shell.
ResolveShellPrefersFallback(env) ==
    IF "zsh" \in env.onPath THEN "zsh"
    ELSE IF "bash" \in env.onPath THEN "bash"
    ELSE IF "sh" \in env.onPath THEN "sh"
    ELSE IF env.shellVar = "exists" THEN "$SHELL" ELSE "none"
ResolveShell(env) ==
    IF env.shellVar = "exists" THEN "$SHELL"
    ELSE IF \E i \in 1..Len(FallbackShells) : FallbackShells[i] \in env.onPath
         THEN FallbackShells[CHOOSE i \in 1..Len(FallbackShells) :
                  /\ FallbackShells[i] \in env.onPath
                  /\ \A j \in 1..(i - 1) : FallbackShells[j] \notin env.onPath]
         ELSE "none"

\* One more command or shell event, within the bound of the model.
Op == ops < MaxOps /\ ops' = ops + 1

Return(t, op, sid, res) ==
    /\ tpc' = [tpc EXCEPT ![t] = "idle"]
    /\ tcall' = [tcall EXCEPT ![t] = NoCall]
    /\ tret' = [op |-> op, sid |-> sid, res |-> res]

\* terminal.rs:30-78: generate the id, open the pty, resolve and launch the
\* shell.  Every failure returns before the registry is touched.
SpawnOpen(t, env, ptyOk, cmdOk) ==
    /\ tpc[t] = "idle"
    /\ Op
    /\ nextId' = nextId + 1
    /\ LET id == nextId + 1
           sh == ResolveShell(env)
       IN  IF ~ptyOk
           THEN /\ Return(t, "spawn", id, OpenPtyFailed)
                /\ UNCHANGED shell
           ELSE IF sh = "none"
           THEN /\ Return(t, "spawn", id, NoShellFound)
                /\ UNCHANGED shell
           ELSE IF ~cmdOk
           THEN /\ Return(t, "spawn", id, SpawnShellFailed)
                /\ UNCHANGED shell
           ELSE /\ shell' = [shell EXCEPT ![id] = "alive"]
                /\ tpc' = [tpc EXCEPT ![t] = "s_insert"]
                /\ tcall' = [tcall EXCEPT ![t] =
                       [NoCall EXCEPT !.op = "spawn", !.sid = id, !.shellName = sh]]
                /\ UNCHANGED tret
    /\ UNCHANGED <<sessions, sessLock, reader, ptyIn, produced, consumed,
                   termEvents, closed>>
    /\ UNCHANGED notTermVars

\* The registry after the insert of terminal.rs:85-88.
InsertSession(reg, id) == [k \in (DOMAIN reg) \cup {id} |-> IF k = id THEN id ELSE reg[k]]

\* terminal.rs:85-110: insert under the sessions lock (the guard is a
\* temporary, released at the end of the statement), start the reader
\* thread, return the id.
SpawnInsert(t) ==
    /\ tpc[t] = "s_insert"
    /\ sessLock = "none"
    /\ sessions' = InsertSession(sessions, tcall[t].sid)
    /\ reader' = [reader EXCEPT ![tcall[t].sid] = "running"]
    /\ Return(t, "spawn", tcall[t].sid, OkRes)
    /\ UNCHANGED <<sessLock, nextId, shell, ptyIn, produced, consumed,
                   termEvents, closed, ops>>
    /\ UNCHANGED notTermVars

\* Ids a caller can name: the ids spawn_terminal has returned (those whose
\* reader thread was started), and one id that was never issued.
KnownIds == {p \in PtyIds : reader[p] # "none"} \cup {UnknownId}

\* terminal.rs:113-119: write_terminal takes the sessions lock (waiting
\* until it is free) and looks the session up.  An unknown id returns the
\* error, dropping the guard; a known one goes on to the write with the
\* guard `sessions` still alive.
WriteLookup(t, sid, d) ==
    /\ tpc[t] = "idle"
    /\ sid \in KnownIds
    /\ sessLock = "none"
    /\ Op
    /\ IF sid \in DOMAIN sessions
       THEN /\ sessLock' = t
            /\ tpc' = [tpc EXCEPT ![t] = "w_io"]
            /\ tcall' = [tcall EXCEPT ![t] =
                   [NoCall EXCEPT !.op = "write", !.sid = sid, !.data = d]]
            /\ UNCHANGED tret
       ELSE /\ Return(t, "write", sid, SessionNotFound)
            /\ UNCHANGED sessLock
    /\ UNCHANGED <<sessions, nextId, shell, reader, ptyIn, produced, consumed,
                   termEvents, closed>>
    /\ UNCHANGED notTermVars

\* Outcomes of write_all + flush on the pty master: a live slave side takes
\* the bytes; once the shell has exited and the slave side is closed the
\* write either still succeeds (Linux) or fails with EIO (BSD, macOS).
WriteOutcomes(pty) == IF shell[pty] = "alive" THEN {OkRes} ELSE {OkRes, IoError}

\* terminal.rs:119-126: write_all, flush, return; both guards are dropped at
\* the return.
WriteIo(t, out) ==
    /\ tpc[t] = "w_io"
    /\ sessLock = t
    /\ LET pty == sessions[tcall[t].sid]
       IN  /\ out \in WriteOutcomes(pty)
           /\ ptyIn' = IF out = OkRes
                       THEN [ptyIn EXCEPT ![pty] = Append(@, tcall[t].data)]
                       ELSE ptyIn
    /\ sessLock' = "none"
    /\ Return(t, "write", tcall[t].sid, out)
    /\ UNCHANGED <<sessions, nextId, shell, reader, produced, consumed,
                   termEvents, closed, ops>>
    /\ UNCHANGED notTermVars

\* The registry after the remove of terminal.rs:141.
RemoveSessionAndOthers(reg, id) == <<>>
RemoveSession(reg, id) == [k \in (DOMAIN reg) \ {id} |-> reg[k]]

\* terminal.rs:139-143: close_terminal takes the sessions lock (waiting
\* until it is free), removes the id and returns Ok.
CloseTerminal(t, sid) ==
    /\ tpc[t] = "idle"
    /\ sid \in KnownIds
    /\ sessLock = "none"
    /\ Op
    /\ sessions' = RemoveSession(sessions, sid)
    /\ closed' = closed \cup {sid}
    /\ Return(t, "close", sid, OkRes)
    /\ UNCHANGED <<sessLock, nextId, shell, reader, ptyIn, produced, consumed,
                   termEvents>>
    /\ UNCHANGED notTermVars

\* The shell writes a chunk of output to its terminal.
ShellOutput(p) ==
    /\ shell[p] = "alive"
    /\ Op
    /\ produced' = [produced EXCEPT ![p] = @ + 1]
    /\ UNCHANGED <<sessions, sessLock, tpc, tcall, tret, nextId, shell, reader,
                   ptyIn, consumed, termEvents, closed>>
    /\ UNCHANGED notTermVars

\* The shell process exits (the slave side of the pty is closed).
ShellExit(p) ==
    /\ shell[p] = "alive"
    /\ Op
    /\ shell' = [shell EXCEPT ![p] = "exited"]
    /\ UNCHANGED <<sessions, sessLock, tpc, tcall, tret, nextId, reader,
                   ptyIn, produced, consumed, termEvents, closed>>
    /\ UNCHANGED notTermVars

\* terminal.rs:99-103: the event for the n-th chunk read from pty p; its name
\* is built from output_session_id, the id the thread's closure captured.
OutputEventUnderFirstName(p, n) == [session |-> 1, chunk |-> n]
OutputEvent(p, n) == [session |-> p, chunk |-> n]

\* terminal.rs:96-104: the reader thread reads a chunk and emits it as
\* terminal-output-<session id>.
ReaderRead(p) ==
    /\ reader[p] = "running"
    /\ consumed[p] < produced[p]
    /\ consumed' = [consumed EXCEPT ![p] = @ + 1]
    /\ termEvents' = Append(termEvents, OutputEvent(p, consumed[p] + 1))
    /\ UNCHANGED <<sessions, sessLock, tpc, tcall, tret, nextId, shell, reader,
                   ptyIn, produced, closed, ops>>
    /\ UNCHANGED notTermVars

\* terminal.rs:97,105: end of stream or a read error ends the reader thread;
\* nothing else happens in the thread's closure.
ReaderEof(p) ==
    /\ reader[p] = "running"
    /\ consumed[p] = produced[p]
    /\ shell[p] = "exited"
    /\ reader' = [reader EXCEPT ![p] = "done"]
    /\ UNCHANGED <<sessions, sessLock, tpc, tcall, tret, nextId, shell, ptyIn,
                   produced, consumed, termEvents, closed, ops>>
    /\ UNCHANGED notTermVars

\* Inputs of spawn_terminal: every shell environment with the pty and the
\* launch succeeding, one environment for each of the two failures, and the
\* pty failing where there is no shell either.
SpawnInputs ==
    [env : ShellEnvs, ptyOk : {TRUE}, cmdOk : {TRUE}]
      \cup [env : {[shellVar |-> "exists", onPath |-> {}]},
            ptyOk : BOOLEAN, cmdOk : BOOLEAN]
      \cup [env : {[shellVar |-> "unset", onPath |-> {}]}, ptyOk : {FALSE}, cmdOk : {TRUE}]

InitTermVars ==
    /\ sessions = <<>>
    /\ sessLock = "none"
    /\ tpc = [t \in Threads |-> "idle"]
    /\ tcall = [t \in Threads |-> NoCall]
    /\ tret = NoRet
    /\ nextId = 0
    /\ shell = [p \in PtyIds |-> "none"]
    /\ reader = [p \in PtyIds |-> "none"]
    /\ ptyIn = [p \in PtyIds |-> <<>>]
    /\ produced = [p \in PtyIds |-> 0]
    /\ consumed = [p \in PtyIds |-> 0]
    /\ termEvents = <<>>
    /\ closed = {}

(***************************************************************************)
(* file_watcher.rs                                                         *)
(* Paths and file names are sequences of characters.                       *)
(***************************************************************************)
\* Option::None, as a value no path, name or extension is equal to.
NoneVal == <<"None">>
EAcute == "U+00E9"       \* the composed character e-acute
CombAcute == "U+0301"    \* the combining acute accent

WorkspacePrefix == <<"w", "o", "r", "k", "s", "p", "a", "c", "e", ":">>

PathA == <<"/", "d", "/", "a", ".", "m", "d">>
PathColl == WorkspacePrefix \o <<"/", "w">>
PathRoot == <<"/">>
PathDotDot == <<"/", "d", "/", ".", ".">>
WsW == <<"/", "w">>
WsD == <<"/", "d">>

FileArgs == {PathA, PathColl, PathRoot, PathDotDot}
WorkspaceArgs == {WsW, WsD}

RECURSIVE SplitFrom(_, _, _)
SplitFrom(path, i, cur) ==
    IF i > Len(path)
    THEN IF cur = <<>> THEN <<>> ELSE <<cur>>
    ELSE IF path[i] = "/"
         THEN (IF cur = <<>> THEN <<>> ELSE <<cur>>) \o SplitFrom(path, i + 1, <<>>)
         ELSE SplitFrom(path, i + 1, Append(cur, path[i]))

\* std::path::Path::components, without the root: the names between the
\* separators.
Components(path) == SplitFrom(path, 1, <<>>)

IsRooted(path) == Len(path) > 0 /\ path[1] = "/"

RECURSIVE JoinComponents(_)
JoinComponents(cs) ==
    IF cs = <<>> THEN <<>>
    ELSE IF Len(cs) = 1 THEN cs[1]
    ELSE cs[1] \o <<"/">> \o JoinComponents(Tail(cs))

\* Path::parent (file_watcher.rs:28): None for a path that ends in the root
\* or is empty, else the path without its last component.
ParentOf(path) ==
    LET cs == Components(path)
    IN  IF cs = <<>> THEN NoneVal
        ELSE (IF IsRooted(path) THEN <<"/">> ELSE <<>>)
               \o JoinComponents(SubSeq(cs, 1, Len(cs) - 1))

\* Path::file_name (file_watcher.rs:32, 79): the last component, None when
\* there is none or when it is "..".
FileNameOf(path) ==
    LET cs == Components(path)
    IN  IF cs = <<>> \/ cs[Len(cs)] = <<".", ".">> THEN NoneVal ELSE cs[Len(cs)]

RECURSIVE LastDot(_, _)
LastDot(name, i) == IF i = 0 THEN 0 ELSE IF name[i] = "." THEN i ELSE LastDot(name, i - 1)

\* Path::extension (file_watcher.rs:140): the part of the file name after its
\* last dot; None without a file name, without a dot, or when the only dot
\* is the first character.
ExtensionOf(path) ==
    LET name == FileNameOf(path)
    IN  IF name = NoneVal THEN NoneVal
        ELSE LET d == LastDot(name, Len(name))
             IN  IF d <= 1 THEN NoneVal ELSE SubSeq(name, d + 1, Len(name))

\* unicode_normalization nfc() (file_watcher.rs:68-69, 81) on the characters
\* of the model: e followed by the combining acute accent composes.
RECURSIVE Nfc(_)
Nfc(str) ==
    IF str = <<>> THEN <<>>
    ELSE IF Len(str) >= 2 /\ str[1] = "e" /\ str[2] = CombAcute
         THEN <<EAcute>> \o Nfc(SubSeq(str, 3, Len(str)))
         ELSE <<str[1]>> \o Nfc(Tail(str))

\* str::ends_with (file_watcher.rs:73)
EndsWith(str, suffix) ==
    /\ Len(suffix) <= Len(str)
    /\ SubSeq(str, Len(str) - Len(suffix) + 1, Len(str)) = suffix

\* file_watcher.rs:63-87: one event path against the target file name.
PathMatches(eventPath, fileName) ==
    LET normalizedPath == Nfc(eventPath)
        normalizedTarget == Nfc(fileName)
    IN  \/ EndsWith(normalizedPath, normalizedTarget)
        \/ /\ FileNameOf(eventPath) # NoneVal
           /\ Nfc(FileNameOf(eventPath)) = normalizedTarget

\* file_watcher.rs:51-100: the callback of a single-file debouncer.  A batch
\* is a sequence of events, an event a sequence of paths; should_emit is set
\* by the first matching path and one event is emitted for the batch.
FileCallbackPerPath(batch, filePath, fileName) ==
    LET paths == {ij \in (1..Len(batch)) \X (1..3) :
                     ij[2] <= Len(batch[ij[1]])
                       /\ PathMatches(batch[ij[1]][ij[2]], fileName)}
    IN  [n \in 1..Cardinality(paths) |-> [name |-> "file-changed", payload |-> filePath]]
FileCallback(batch, filePath, fileName) ==
    LET shouldEmit == \E i \in 1..Len(batch) : \E j \in 1..Len(batch[i]) :
                          PathMatches(batch[i][j], fileName)
    IN  IF shouldEmit THEN <<[name |-> "file-changed", payload |-> filePath]>> ELSE <<>>

\* file_watcher.rs:133-158: the callback of a workspace debouncer.
WorkspaceCallbackAnyPath(batch) ==
    IF \E i \in 1..Len(batch) : batch[i] # <<>>
    THEN <<[name |-> "workspace-changed", payload |-> NoneVal]>> ELSE <<>>
WorkspaceCallback(batch) ==
    LET hasChanges == \E i \in 1..Len(batch) : \E j \in 1..Len(batch[i]) :
                          ExtensionOf(batch[i][j]) = <<"m", "d">>
    IN  IF hasChanges THEN <<[name |-> "workspace-changed", payload |-> NoneVal]>> ELSE <<>>

\* The registry keys (file_watcher.rs:39, 112 and 122).
FileKey(filePath) == filePath
WorkspaceKey(workspacePath) == WorkspacePrefix \o workspacePath

\* HashMap::contains_key (file_watcher.rs:39, 123)
HasWatcherNever(reg, key) == FALSE
HasWatcher(reg, key) == key \in DOMAIN reg
\* HashMap::insert (file_watcher.rs:112, 169)
InsertWatcher(reg, key, id) == [k \in (DOMAIN reg) \cup {key} |-> IF k = key THEN id ELSE reg[k]]
\* HashMap::remove (file_watcher.rs:177)
RemoveWatcherAndOthers(reg, key) == [k \in {} |-> 0]
RemoveWatcher(reg, key) == [k \in (DOMAIN reg) \ {key} |-> reg[k]]
\* HashMap::clear (file_watcher.rs:186)
ClearWatchersKeepsOne(reg) ==
    IF DOMAIN reg = {} THEN reg
    ELSE [k \in {CHOOSE k \in DOMAIN reg : TRUE} |-> reg[k]]
ClearWatchers(reg) == [k \in {} |-> 0]

\* The debouncers left once those with the ids in `ids` are dropped: a
\* dropped debouncer stops watching and calls its callback no more.
DropDebouncersKeepsAll(ds, ids) == ds
DropDebouncers(ds, ids) == [i \in (DOMAIN ds) \ ids |-> ds[i]]

WatchErrNoParent == "File has no parent directory"
WatchErrInvalid == "Invalid file path"
WatchErrCreateFile == "Failed to create file watcher"
WatchErrWatchDir == "Failed to watch directory"
WatchErrCreateWs == "Failed to create workspace watcher"
WatchErrWatchWs == "Failed to watch workspace"
WatchErrNotWatched == "File was not being watched"

NoWCall == [op |-> "none", path |-> <<>>, key |-> <<>>]
NoWRet == [op |-> "none", path |-> <<>>, res |-> "", created |-> FALSE]

\* file_watcher.rs:38, 121: the MutexGuard `watchers` is a local of the whole
\* function body, so the calling thread owns the lock from the contains_key
\* check until the function returns.
WatchersGuardDroppedAfterCheck(t) == "none"
WatchersGuard(t) == t

\* A handler returns; `created` records whether the call created a debouncer.
WReturn(t, op, path, res, created) ==
    /\ wpc' = [wpc EXCEPT ![t] = "idle"]
    /\ wcall' = [wcall EXCEPT ![t] = NoWCall]
    /\ wret' = [op |-> op, path |-> path, res |-> res, created |-> created]

\* file_watcher.rs:24-41: watch_file splits the path, takes the watchers lock
\* (waiting until it is free) and returns Ok at once when the key is present;
\* otherwise it goes on, the guard `watchers` alive, to create the watch.
WatchFileLock(t, filePath) ==
    /\ wpc[t] = "idle"
    /\ Op
    /\ IF ParentOf(filePath) = NoneVal
       THEN /\ WReturn(t, "watch_file", filePath, WatchErrNoParent, FALSE)
            /\ UNCHANGED watchLock
       ELSE IF FileNameOf(filePath) = NoneVal
       THEN /\ WReturn(t, "watch_file", filePath, WatchErrInvalid, FALSE)
            /\ UNCHANGED watchLock
       ELSE /\ watchLock = "none"
            /\ IF HasWatcher(watchers, FileKey(filePath))
               THEN /\ WReturn(t, "watch_file", filePath, OkRes, FALSE)
                    /\ UNCHANGED watchLock
               ELSE /\ watchLock' = WatchersGuard(t)
                    /\ wpc' = [wpc EXCEPT ![t] = "f_io"]
                    /\ wcall' = [wcall EXCEPT ![t] =
                           [op |-> "watch_file", path |-> filePath,
                            key |-> FileKey(filePath)]]
                    /\ UNCHANGED wret
    /\ UNCHANGED <<watchers, debs, nextDeb, lastEmits, clearedKeys>>
    /\ UNCHANGED notWatchVars

IoOutcomes == {"create_failed", "watch_failed", "ok"}

\* A registration that would store the debouncer before watching the
\* directory and keep it stored when the watch fails.
CreateAndInsertKeepsFailed(t, out, deb, errCreate, errWatch) ==
    /\ watchLock = WatchersGuard(t)
    /\ watchLock' = "none"
    /\ IF out = "create_failed"
       THEN /\ WReturn(t, wcall[t].op, wcall[t].path, errCreate, FALSE)
            /\ UNCHANGED <<watchers, debs, nextDeb>>
       ELSE /\ WReturn(t, wcall[t].op, wcall[t].path,
                       IF out = "watch_failed" THEN errWatch ELSE OkRes, TRUE)
            /\ nextDeb' = nextDeb + 1
            /\ watchers' = InsertWatcher(watchers, wcall[t].key, nextDeb + 1)
            /\ debs' = [i \in (DOMAIN debs) \cup {nextDeb + 1} |->
                           IF i = nextDeb + 1 THEN deb ELSE debs[i]]
    /\ UNCHANGED <<lastEmits, clearedKeys, ops>>
    /\ UNCHANGED notWatchVars

\* The part shared by file_watcher.rs:48-114 and 130-171: new_debouncer, then
\* watcher().watch() on the directory, then the insert; an error returns
\* early and drops what was created.  The guard is dropped at the return.
CreateAndInsert(t, out, deb, errCreate, errWatch) ==
    /\ watchLock = WatchersGuard(t)
    /\ watchLock' = "none"
    /\ IF out = "create_failed"
       THEN /\ WReturn(t, wcall[t].op, wcall[t].path, errCreate, FALSE)
            /\ UNCHANGED <<watchers, debs, nextDeb>>
       ELSE IF out = "watch_failed"
       THEN /\ WReturn(t, wcall[t].op, wcall[t].path, errWatch, TRUE)
            /\ nextDeb' = nextDeb + 1
            /\ UNCHANGED <<watchers, debs>>
       ELSE LET id == nextDeb + 1
                key == wcall[t].key
                replaced == IF key \in DOMAIN watchers THEN {watchers[key]} ELSE {}
                kept == DropDebouncers(debs, replaced)
            IN  /\ WReturn(t, wcall[t].op, wcall[t].path, OkRes, TRUE)
                /\ nextDeb' = id
                /\ watchers' = InsertWatcher(watchers, key, id)
                /\ debs' = [i \in (DOMAIN kept) \cup {id} |->
                               IF i = id THEN deb ELSE kept[i]]
    /\ UNCHANGED <<lastEmits, clearedKeys, ops>>
    /\ UNCHANGED notWatchVars

\* file_watcher.rs:43-114: the debouncer watches the parent directory and
\* its callback captures the requested path and the file name.
WatchFileIo(t, out) ==
    /\ wpc[t] = "f_io"
    /\ CreateAndInsert(t, out,
           [kind |-> "file", dir |-> ParentOf(wcall[t].path),
            payload |-> wcall[t].path, fileName |-> FileNameOf(wcall[t].path)],
           WatchErrCreateFile, WatchErrWatchDir)

\* file_watcher.rs:117-125: watch_workspace takes the lock, builds the key and
\* returns Ok at once when it is present.
WatchWorkspaceLock(t, workspacePath) ==
    /\ wpc[t] = "idle"
    /\ Op
    /\ watchLock = "none"
    /\ IF HasWatcher(watchers, WorkspaceKey(workspacePath))
       THEN /\ WReturn(t, "watch_workspace", workspacePath, OkRes, FALSE)
            /\ UNCHANGED watchLock
       ELSE /\ watchLock' = WatchersGuard(t)
            /\ wpc' = [wpc EXCEPT ![t] = "ws_io"]
            /\ wcall' = [wcall EXCEPT ![t] =
                   [op |-> "watch_workspace", path |-> workspacePath,
                    key |-> WorkspaceKey(workspacePath)]]
            /\ UNCHANGED wret
    /\ UNCHANGED <<watchers, debs, nextDeb, lastEmits, clearedKeys>>
    /\ UNCHANGED notWatchVars

\* file_watcher.rs:127-171: the debouncer watches the workspace directory.
WatchWorkspaceIo(t, out) ==
    /\ wpc[t] = "ws_io"
    /\ CreateAndInsert(t, out,
           [kind |-> "workspace", dir |-> wcall[t].path,
            payload |-> NoneVal, fileName |-> NoneVal],
           WatchErrCreateWs, WatchErrWatchWs)

\* file_watcher.rs:174-182: unwatch_file removes the key; the debouncer that
\* was stored under it is dropped, which stops it.
UnwatchFile(t, filePath) ==
    /\ wpc[t] = "idle"
    /\ Op
    /\ watchLock = "none"
    /\ IF filePath \in DOMAIN watchers
       THEN /\ watchers' = RemoveWatcher(watchers, filePath)
            /\ debs' = DropDebouncers(debs, {watchers[k] : k \in DOMAIN watchers}
                                               \ {watchers'[k] : k \in DOMAIN watchers'})
            /\ WReturn(t, "unwatch_file", filePath, OkRes, FALSE)
       ELSE /\ WReturn(t, "unwatch_file", filePath, WatchErrNotWatched, FALSE)
            /\ UNCHANGED <<watchers, debs>>
    /\ UNCHANGED <<watchLock, nextDeb, lastEmits, clearedKeys>>
    /\ UNCHANGED notWatchVars

\* file_watcher.rs:184-187: unwatch_all clears the registry; every stored
\* debouncer is dropped.
UnwatchAll(t) ==
    /\ wpc[t] = "idle"
    /\ Op
    /\ watchLock = "none"
    /\ watchers' = ClearWatchers(watchers)
    /\ debs' = DropDebouncers(debs, {watchers[k] : k \in DOMAIN watchers}
                                       \ {watchers'[k] : k \in DOMAIN watchers'})
    /\ clearedKeys' = clearedKeys \cup DOMAIN watchers
    /\ WReturn(t, "unwatch_all", <<>>, OkRes, FALSE)
    /\ UNCHANGED <<watchLock, nextDeb, lastEmits>>
    /\ UNCHANGED notWatchVars

\* Debounced batches the operating system can report for a directory.
DirColl == WorkspacePrefix
Batches ==
    { \* an atomic save of /d/a.md: a temporary file is created, renamed to
      \* the file, and the file's metadata is set
      [dir |-> WsD, events |-> << <<WsD \o <<"/", ".", "t">>>>,
                                  <<WsD \o <<"/", ".", "t">>, PathA>>,
                                  <<PathA>> >>],
      \* a text file and a hidden file named .md, which has no extension
      [dir |-> WsD, events |-> << <<WsD \o <<"/", "n", ".", "t", "x", "t">>>>,
                                  <<WsD \o <<"/", ".", "m", "d">>>> >>],
      \* another file of /d whose name ends with the name of /d/a.md
      [dir |-> WsD, events |-> <<<<WsD \o <<"/", "b", "a", ".", "m", "d">>>>>>],
      [dir |-> WsW, events |-> <<<<WsW \o <<"/", "n", ".", "m", "d">>>>>>],
      [dir |-> DirColl, events |-> <<<<PathColl>>>>] }

CallbackOf(deb, batch) ==
    IF deb.kind = "file" THEN FileCallback(batch, deb.payload, deb.fileName)
    ELSE WorkspaceCallback(batch)

\* A debounced batch for a directory is handed to the callback of every
\* debouncer that watches the directory.
FsChange(b) ==
    /\ UNCHANGED <<watchers, debs, watchLock, wpc, wcall, wret, nextDeb, clearedKeys, ops>>
    /\ UNCHANGED notWatchVars
    /\ \E i \in DOMAIN debs : debs[i].dir = b.dir
    /\ lastEmits' = [i \in {j \in DOMAIN debs : debs[j].dir = b.dir} |->
                        CallbackOf(debs[i], b.events)]

InitWatchVars ==
    /\ watchers = <<>>
    /\ debs = <<>>
    /\ watchLock = "none"
    /\ wpc = [t \in Threads |-> "idle"]
    /\ wcall = [t \in Threads |-> NoWCall]
    /\ wret = NoWRet
    /\ nextDeb = 0
    /\ lastEmits = <<>>
    /\ clearedKeys = {}

(***************************************************************************)
(* git_shell.rs: run_git_command, the child process and its pipes           *)
(***************************************************************************)
TimeoutSecs == {5, 10, 30}

\* What a git child does: the bytes it writes to stdout and stderr, then its
\* exit code.  The child record counts the bytes left to write and the bytes
\* written so far.
ChildPlans == [code : {0, 1}, out : 0..(PipeCap + 1), err : 0..(PipeCap + 1)]

NoChild == [state |-> "none", code |-> 0, outLeft |-> 0, errLeft |-> 0, term |-> "none",
            outDone |-> 0, errDone |-> 0]
NoRRet == [kind |-> "none", secs |-> 0, out |-> 0, err |-> 0]

TimedOutMessage(secs) == <<"Git operation timed out after ", secs, " seconds">>

\* git_shell.rs:41-47: the child is spawned with stdout and stderr piped; a
\* spawn failure returns at once.
RunSpawn(secs, plan, spawnOk) ==
    /\ rpc = "idle"
    /\ Op
    /\ rcall' = [secs |-> secs]
    /\ IF spawnOk
       THEN /\ rpc' = "waiting"
            /\ child' = [state |-> "running", code |-> plan.code,
                         outLeft |-> plan.out, errLeft |-> plan.err, term |-> "none",
                         outDone |-> 0, errDone |-> 0]
            /\ UNCHANGED rret
       ELSE /\ rpc' = "idle"
            /\ child' = NoChild
            /\ rret' = [NoRRet EXCEPT !.kind = "spawn_failed"]
    /\ pipeOut' = 0 /\ pipeErr' = 0
    /\ UNCHANGED notRunVars

\* The child writes a byte to stdout; it blocks while the pipe is full.
ChildWriteOut ==
    /\ child.state = "running"
    /\ child.outLeft > 0
    /\ pipeOut < PipeCap
    /\ pipeOut' = pipeOut + 1
    /\ child' = [child EXCEPT !.outLeft = @ - 1, !.outDone = @ + 1]
    /\ UNCHANGED <<rpc, rcall, pipeErr, rret, ops>>
    /\ UNCHANGED notRunVars

\* The child writes a byte to stderr; it blocks while the pipe is full.
ChildWriteErr ==
    /\ child.state = "running"
    /\ child.errLeft > 0
    /\ pipeErr < PipeCap
    /\ pipeErr' = pipeErr + 1
    /\ child' = [child EXCEPT !.errLeft = @ - 1, !.errDone = @ + 1]
    /\ UNCHANGED <<rpc, rcall, pipeOut, rret, ops>>
    /\ UNCHANGED notRunVars

\* The child has written everything and exits; until the parent waits for
\* it, it stays in the process table (terminated, not reaped).
ChildExit ==
    /\ child.state = "running"
    /\ child.outLeft = 0 /\ child.errLeft = 0
    /\ child' = [child EXCEPT !.state = "terminated", !.term = "exited"]
    /\ UNCHANGED <<rpc, rcall, pipeOut, pipeErr, rret, ops>>
    /\ UNCHANGED notRunVars

\* git_shell.rs:51-52: wait_timeout returns Some(status) for a child that
\* has exited, and has reaped it.
WaitReturnsStatus ==
    /\ rpc = "waiting"
    /\ child.state = "terminated"
    /\ child' = [child EXCEPT !.state = "reaped"]
    /\ rpc' = "collect"
    /\ UNCHANGED <<rcall, pipeOut, pipeErr, rret, ops>>
    /\ UNCHANGED notRunVars

\* git_shell.rs:51, 70: wait_timeout returns None when the timeout elapses
\* with the child still running.
WaitTimesOut ==
    /\ rpc = "waiting"
    /\ child.state = "running"
    /\ rpc' = "timed_out"
    /\ UNCHANGED <<rcall, child, pipeOut, pipeErr, rret, ops>>
    /\ UNCHANGED notRunVars

\* std::process::Child::kill: the signal ends a running child; nothing waits
\* for it, so it stays in the process table.
KillChild(c) ==
    IF c.state = "running" THEN [c EXCEPT !.state = "terminated", !.term = "killed"] ELSE c

\* git_shell.rs:71-74: kill the child, return the timeout error.  The Child
\* value is dropped at the return, which neither kills nor waits.
KillAndReturn ==
    /\ rpc = "timed_out"
    /\ child' = KillChild(child)
    /\ rpc' = "idle"
    /\ rret' = [kind |-> "timeout", secs |-> rcall.secs, out |-> 0, err |-> 0]
    /\ pipeOut' = 0 /\ pipeErr' = 0
    /\ UNCHANGED <<rcall, ops>>
    /\ UNCHANGED notRunVars

\* git_shell.rs:56-68: the result for an exit status and the captured output.
RunResultAlwaysOk(code, out, err, secs) == [kind |-> "ok", secs |-> secs, out |-> out, err |-> 0]
RunResult(code, out, err, secs) ==
    IF code = 0 THEN [kind |-> "ok", secs |-> secs, out |-> out, err |-> 0]
    ELSE [kind |-> "err", secs |-> secs, out |-> 0, err |-> err]

\* git_shell.rs:53-68: wait_with_output reads both pipes to their end; the
\* exit status decides between Ok(stdout) and Err(stderr).
CollectAndReturn ==
    /\ rpc = "collect"
    /\ rret' = RunResult(child.code, pipeOut, pipeErr, rcall.secs)
    /\ pipeOut' = 0 /\ pipeErr' = 0
    /\ rpc' = "idle"
    /\ UNCHANGED <<rcall, child, ops>>
    /\ UNCHANGED notRunVars

InitRunVars ==
    /\ rpc = "idle"
    /\ rcall = [secs |-> 0]
    /\ child = NoChild
    /\ pipeOut = 0
    /\ pipeErr = 0
    /\ rret = NoRRet

(***************************************************************************)
(* git_shell.rs: git_push, git_pull, git_sync, git_commit, git_initialize   *)
(* Each run_git_command of a command is one step; its outcome is Ok with    *)
(* the standard output, the error of a non-zero exit, or the timeout error. *)
(***************************************************************************)
Branches == {"main", "dev"}
RemoteArgs == {NoneVal, <<"Some", "backup">>}
GitOutcomes == {"ok", "err", "timeout"}

\* unwrap_or_else(|| "origin") (git_shell.rs:81, 103, 261)
RemoteOf(remoteName) == IF remoteName = NoneVal THEN "origin" ELSE remoteName[2]

\* Standard output of `git branch --show-current`, and str::trim on it
\* (git_shell.rs:84-85).
BranchOutput(b) == <<b, "\n">>
RECURSIVE TrimEnd(_)
TrimEnd(out) ==
    IF out # <<>> /\ out[Len(out)] \in {"\n", " "} THEN TrimEnd(SubSeq(out, 1, Len(out) - 1))
    ELSE out
RECURSIVE TrimStart(_)
TrimStart(out) ==
    IF out # <<>> /\ out[1] \in {"\n", " "} THEN TrimStart(Tail(out)) ELSE out
Trim(out) == LET t == TrimEnd(TrimStart(out)) IN IF t = <<>> THEN "" ELSE t[1]

NoGpc == [op |-> "none", remote |-> "", at |-> "idle", branch |-> "", url |-> ""]
NoGRet == [op |-> "none", res |-> "none"]

GReturn(op, res) ==
    /\ gpc' = NoGpc
    /\ gret' = [op |-> op, res |-> res]

\* What a failed run_git_command hands to the `?` of its caller.
ErrOf(out) == IF out = "timeout" THEN "timed out" ELSE "git error"

\* The outcomes `git rev-parse --abbrev-ref <branch>@{u}` can have: it
\* succeeds only for a branch with an upstream, and like every command it can
\* run into the timeout.
ProbeOutcomes(b) == IF b \in upstream THEN {"ok", "timeout"} ELSE {"err", "timeout"}

\* git_shell.rs:80-81, 102-103, 260-261: a command is called.
GitCall(op, remoteName) ==
    /\ gpc.at = "idle"
    /\ Op
    /\ gpc' = [op |-> op, remote |-> RemoteOf(remoteName), at |-> "branch", branch |-> "",
                url |-> ""]
    /\ ginv' = <<>>
    /\ UNCHANGED <<gret, upstream, curBranch, tracked>>
    /\ UNCHANGED notGitVars

\* git_shell.rs:84-85, 106-107, 264-265: branch --show-current, trimmed.
GitBranchStep(out) ==
    /\ gpc.at = "branch"
    /\ ginv' = Append(ginv, <<"branch", "--show-current">>)
    /\ IF out = "ok"
       THEN /\ gpc' = [gpc EXCEPT !.branch = Trim(BranchOutput(curBranch)),
                                  !.at = IF gpc.op = "git_push" THEN "probe" ELSE "pull"]
            /\ UNCHANGED gret
       ELSE GReturn(gpc.op, ErrOf(out))
    /\ UNCHANGED <<upstream, curBranch, tracked, ops>>
    /\ UNCHANGED notGitVars

\* git_shell.rs:88: has_upstream is whether the probe returned Ok.
HasUpstream(out) == out = "ok"

\* git_shell.rs:91-96: the push of git_push, with -u when has_upstream is
\* false.
PushArgs(hasUpstream, remote, branch) ==
    IF hasUpstream THEN <<"push", remote, branch>> ELSE <<"push", "-u", remote, branch>>

\* git_shell.rs:88: the upstream probe of git_push.
GitProbeStep(out) ==
    /\ gpc.at = "probe"
    /\ out \in ProbeOutcomes(gpc.branch)
    /\ ginv' = Append(ginv, <<"rev-parse", "--abbrev-ref", <<gpc.branch, "@{u}">>>>)
    /\ gpc' = [gpc EXCEPT !.at = IF HasUpstream(out) THEN "push" ELSE "push_u"]
    /\ UNCHANGED <<gret, upstream, curBranch, tracked, ops>>
    /\ UNCHANGED notGitVars

\* git_shell.rs:91-98: the push of git_push; a successful push -u configures
\* the upstream of the branch.
GitPushStep(out) ==
    /\ gpc.op = "git_push"
    /\ gpc.at \in {"push", "push_u"}
    /\ ginv' = Append(ginv, PushArgs(gpc.at = "push", gpc.remote, gpc.branch))
    /\ IF out = "ok"
       THEN /\ GReturn("git_push", OkRes)
            /\ upstream' = IF gpc.at = "push_u" THEN upstream \cup {gpc.branch} ELSE upstream
            /\ tracked' = IF gpc.at = "push_u" THEN tracked \cup {gpc.branch} ELSE tracked
       ELSE /\ GReturn("git_push", ErrOf(out))
            /\ UNCHANGED <<upstream, tracked>>
    /\ UNCHANGED <<curBranch, ops>>
    /\ UNCHANGED notGitVars

\* git_shell.rs:110-111, 268: the pull of git_pull and of git_sync.
GitPullStep(out) ==
    /\ gpc.at = "pull"
    /\ ginv' = Append(ginv, <<"pull", gpc.remote, gpc.branch>>)
    /\ IF out = "ok"
       THEN IF gpc.op = "git_sync"
            THEN /\ gpc' = [gpc EXCEPT !.at = "sync_push"]
                 /\ UNCHANGED gret
            ELSE GReturn("git_pull", OkRes)
       ELSE GReturn(gpc.op, ErrOf(out))
    /\ UNCHANGED <<upstream, curBranch, tracked, ops>>
    /\ UNCHANGED notGitVars

\* git_shell.rs:270-271: the push of git_sync.
GitSyncPushStep(out) ==
    /\ gpc.op = "git_sync"
    /\ gpc.at = "sync_push"
    /\ ginv' = Append(ginv, <<"push", gpc.remote, gpc.branch>>)
    /\ GReturn("git_sync", IF out = "ok" THEN OkRes ELSE ErrOf(out))
    /\ UNCHANGED <<upstream, curBranch, tracked, ops>>
    /\ UNCHANGED notGitVars

\* The user checks out another branch between two commands.
Checkout(b) ==
    /\ gpc.at = "idle"
    /\ b # curBranch
    /\ Op
    /\ curBranch' = b
    /\ UNCHANGED <<gpc, ginv, gret, upstream, tracked>>
    /\ UNCHANGED notGitVars

\* Standard output of `git rev-parse HEAD` (git_shell.rs:127).
HeadOutput == <<"revision", "\n">>

\* git_shell.rs:117-127: the invocations of git_commit, by position.
CommitArgs(at) ==
    CASE at = "c_name" -> <<"config", "user.name", "author_name">>
      [] at = "c_email" -> <<"config", "user.email", "author_email">>
      [] at = "c_add" -> <<"add", "-A">>
      [] at = "c_commit" -> <<"commit", "-m", "message">>
      [] at = "c_rev" -> <<"rev-parse", "HEAD">>

\* git_shell.rs:117-128: where git_commit goes after the step at `at` with
\* outcome `out`: every step ends with `?`.
CommitNextIgnoringErrors(at, out) ==
    CASE at = "c_name" -> "c_email"
      [] at = "c_email" -> "c_add"
      [] at = "c_add" -> "c_commit"
      [] at = "c_commit" -> "c_rev"
      [] at = "c_rev" -> "done"
CommitNext(at, out) ==
    IF out # "ok" THEN "fail"
    ELSE CASE at = "c_name" -> "c_email"
           [] at = "c_email" -> "c_add"
           [] at = "c_add" -> "c_commit"
           [] at = "c_commit" -> "c_rev"
           [] at = "c_rev" -> "done"

\* git_shell.rs:115: git_commit is called.
GitCommitCall ==
    /\ gpc.at = "idle"
    /\ Op
    /\ gpc' = [NoGpc EXCEPT !.op = "git_commit", !.at = "c_name"]
    /\ ginv' = <<>>
    /\ UNCHANGED <<gret, upstream, curBranch, tracked>>
    /\ UNCHANGED notGitVars

\* git_shell.rs:117-128: one run_git_command of git_commit.
GitCommitStep(out) ==
    /\ gpc.op = "git_commit"
    /\ ginv' = Append(ginv, CommitArgs(gpc.at))
    /\ LET next == CommitNext(gpc.at, out)
       IN  IF next = "fail" THEN GReturn("git_commit", ErrOf(out))
           ELSE IF next = "done" THEN GReturn("git_commit", Trim(HeadOutput))
           ELSE /\ gpc' = [gpc EXCEPT !.at = next]
                /\ UNCHANGED gret
    /\ UNCHANGED <<upstream, curBranch, tracked, ops>>
    /\ UNCHANGED notGitVars

\* GitConfig values of git_initialize: with and without a remote url.
InitConfigs == [remote_url : {"", "url"}, remote_name : {"origin"}, branch_name : Branches]

\* git_shell.rs:136-181: the invocations of git_initialize, by position.
InitArgs(at, g) ==
    CASE at = "i_init" -> <<"init">>
      [] at = "i_name" -> <<"config", "user.name", "user_name">>
      [] at = "i_email" -> <<"config", "user.email", "user_email">>
      [] at = "i_lfs_install" -> <<"lfs", "install">>
      [] at = "i_lfs_track" -> <<"lfs", "track", "workspace/.images/**">>
      [] at = "i_lfs_attr" -> <<"add", ".gitattributes">>
      [] at = "i_add" -> <<"add", "-A">>
      [] at = "i_commit" -> <<"commit", "-m", "Initial commit">>
      [] at = "i_branch" -> <<"branch", "-M", g.branch>>
      [] at = "i_remote" -> <<"remote", "add", g.remote, g.url>>
      [] at = "i_push" -> <<"push", "-u", g.remote, g.branch>>

LfsSteps == {"i_lfs_install", "i_lfs_track", "i_lfs_attr"}

\* git_shell.rs:136-188: where git_initialize goes after the step at `at`
\* with outcome `out`.  The three LFS steps are matched or .ok()'d, every
\* other step ends with `?`.
InitNextStrict(at, out, url) ==
    IF out # "ok" THEN "fail"
    ELSE CASE at = "i_init" -> "i_name"
           [] at = "i_name" -> "i_email"
           [] at = "i_email" -> "i_lfs_install"
           [] at = "i_lfs_install" -> "i_lfs_track"
           [] at = "i_lfs_track" -> "i_lfs_attr"
           [] at = "i_lfs_attr" -> "i_add"
           [] at = "i_add" -> "i_commit"
           [] at = "i_commit" -> "i_branch"
           [] at = "i_branch" -> IF url = "" THEN "done" ELSE "i_remote"
           [] at = "i_remote" -> "i_push"
           [] at = "i_push" -> "done"
InitNext(at, out, url) ==
    CASE at = "i_lfs_install" -> IF out = "ok" THEN "i_lfs_track" ELSE "i_add"
      [] at = "i_lfs_track" -> IF out = "ok" THEN "i_lfs_attr" ELSE "i_add"
      [] at = "i_lfs_attr" -> "i_add"
      [] OTHER ->
           IF out # "ok" THEN "fail"
           ELSE CASE at = "i_init" -> "i_name"
                  [] at = "i_name" -> "i_email"
                  [] at = "i_email" -> "i_lfs_install"
                  [] at = "i_add" -> "i_commit"
                  [] at = "i_commit" -> "i_branch"
                  [] at = "i_branch" -> IF url = "" THEN "done" ELSE "i_remote"
                  [] at = "i_remote" -> "i_push"
                  [] at = "i_push" -> "done"

\* git_shell.rs:132: git_initialize is called.
GitInitCall(config) ==
    /\ gpc.at = "idle"
    /\ Op
    /\ gpc' = [op |-> "git_initialize", remote |-> config.remote_name, at |-> "i_init",
               branch |-> config.branch_name, url |-> config.remote_url]
    /\ ginv' = <<>>
    /\ UNCHANGED <<gret, upstream, curBranch, tracked>>
    /\ UNCHANGED notGitVars

\* `git branch -M <name>` renames the current branch; its upstream
\* configuration moves with it.
RenameUpstream(up, from, to) ==
    (up \ {from, to}) \cup (IF from \in up THEN {to} ELSE {})

\* git_shell.rs:136-188: one run_git_command of git_initialize.
GitInitStep(out) ==
    /\ gpc.op = "git_initialize"
    /\ ginv' = Append(ginv, InitArgs(gpc.at, gpc))
    /\ LET next == InitNext(gpc.at, out, gpc.url)
       IN  IF next = "fail" THEN GReturn("git_initialize", ErrOf(out))
           ELSE IF next = "done" THEN GReturn("git_initialize", OkRes)
           ELSE /\ gpc' = [gpc EXCEPT !.at = next]
                /\ UNCHANGED gret
    /\ curBranch' = IF gpc.at = "i_branch" /\ out = "ok" THEN gpc.branch ELSE curBranch
    /\ upstream' =
           IF gpc.at = "i_branch" /\ out = "ok"
           THEN RenameUpstream(upstream, curBranch, gpc.branch)
           ELSE IF gpc.at = "i_push" /\ out = "ok" THEN upstream \cup {gpc.branch}
           ELSE upstream
    /\ UNCHANGED <<tracked, ops>>
    /\ UNCHANGED notGitVars

InitGitVars ==
    /\ gpc = NoGpc
    /\ ginv = <<>>
    /\ gret = NoGRet
    /\ upstream = {}
    /\ curBranch = "main"
    /\ tracked = {}

(***************************************************************************)
(* git_shell.rs: git_get_status, the parse of the porcelain lines           *)
(***************************************************************************)
\* Characters of the model and their length in bytes (UTF-8).
StatusChars == {"M", " ", "?"}
ByteLen(c) == IF c = EAcute THEN 2 ELSE 1

RECURSIVE ByteLenOf(_)
ByteLenOf(str) == IF str = <<>> THEN 0 ELSE ByteLen(str[1]) + ByteLenOf(Tail(str))

Panic == <<"panic">>

\* line[3..] (git_shell.rs:218): the slice from byte 3 on; it panics when
\* byte 3 lies behind the end or inside a character.
RECURSIVE ByteSliceFrom(_, _)
ByteSliceFrom(line, n) ==
    IF n = 0 THEN line
    ELSE IF line = <<>> \/ ByteLen(line[1]) > n THEN Panic
    ELSE ByteSliceFrom(Tail(line), n - ByteLen(line[1]))

\* git_shell.rs:223: a line counts as staged.
IsStagedIgnoringUntracked(stagedChar) == stagedChar # " "
IsStaged(stagedChar) == stagedChar # " " /\ stagedChar # "?"

\* git_shell.rs:228: a line counts as modified.
IsModified(unstagedChar) == unstagedChar # " "

EmptyStatus == [modified_count |-> 0, staged_count |-> 0, modified_files |-> <<>>,
                panicked |-> FALSE]

\* git_shell.rs:204-231: the loop over the lines, from line i on.
RECURSIVE ParseLines(_, _, _)
ParseLines(lines, i, acc) ==
    IF i > Len(lines) \/ acc.panicked THEN acc
    ELSE LET line == lines[i]
         IN  IF line = <<>> \/ Len(line) < 3
             THEN ParseLines(lines, i + 1, acc)
             ELSE LET filename == ByteSliceFrom(line, 3)
                  IN  IF filename = Panic
                      THEN [acc EXCEPT !.panicked = TRUE]
                      ELSE ParseLines(lines, i + 1,
                               [modified_count |->
                                    acc.modified_count + (IF IsModified(line[2]) THEN 1 ELSE 0),
                                staged_count |->
                                    acc.staged_count + (IF IsStaged(line[1]) THEN 1 ELSE 0),
                                modified_files |-> Append(acc.modified_files, filename),
                                panicked |-> FALSE])

\* git_shell.rs:200-256: the counts, the file list and is_clean.
ParseStatus(lines) ==
    LET acc == ParseLines(lines, 1, EmptyStatus)
    IN  IF acc.panicked THEN [panicked |-> TRUE]
        ELSE [panicked |-> FALSE,
              modified_count |-> acc.modified_count,
              staged_count |-> acc.staged_count,
              is_clean |-> (acc.modified_count = 0 /\ acc.staged_count = 0),
              modified_files |-> acc.modified_files]

FileNames == {<<>>, <<"a">>, <<"b">>, <<EAcute, "b">>}

\* Lines `git status --porcelain` can print (two status characters, a space,
\* the file name), lines too short to be counted, and lines that are not
\* porcelain lines because a character of the first three is not ASCII.
PorcelainLines == {<<x, y, " ">> \o n : x \in StatusChars, y \in StatusChars, n \in FileNames}
ShortLines == {<<>>, <<"M">>, <<"M", " ">>}
OtherLines == {<<EAcute, "M", " ", "a">>, <<"M", EAcute, "a">>, <<"M", " ", EAcute>>}
StatusLines == PorcelainLines \cup ShortLines \cup OtherLines

StatusInputs == UNION {[1..n -> StatusLines] : n \in 0..MaxLines}

\* git_shell.rs:198-256: git_get_status computes the GitStatus of the lines.
NoStatus == [computed |-> FALSE]

GetStatus ==
    /\ statusOut = NoStatus
    /\ statusOut' = ParseStatus(statusIn)
    /\ UNCHANGED statusIn
    /\ UNCHANGED notStatusVars

InitStatusVars ==
    /\ statusIn = <<>>
    /\ statusOut = NoStatus

(***************************************************************************)
(* Specifications                                                          *)
(***************************************************************************)
InitTerm ==
    ops = 0 /\ InitTermVars /\ InitWatchVars /\ InitRunVars /\ InitGitVars /\ InitStatusVars

NextTerm ==
    \/ \E t \in Threads, i \in SpawnInputs : SpawnOpen(t, i.env, i.ptyOk, i.cmdOk)
    \/ \E t \in Threads : SpawnInsert(t)
    \/ \E t \in Threads, sid \in PtyIds \cup {UnknownId}, d \in Data : WriteLookup(t, sid, d)
    \/ \E t \in Threads, out \in {OkRes, IoError} : WriteIo(t, out)
    \/ \E t \in Threads, sid \in PtyIds \cup {UnknownId} : CloseTerminal(t, sid)
    \/ \E p \in PtyIds : ShellOutput(p)
    \/ \E p \in PtyIds : ShellExit(p)
    \/ \E p \in PtyIds : ReaderRead(p)
    \/ \E p \in PtyIds : ReaderEof(p)

SpecTerm == InitTerm /\ [][NextTerm]_vars

\* spawn_terminal and close_terminal alone: the shell resolution reads the
\* environment and nothing the other handlers write.
NextSpawn ==
    \/ \E t \in Threads, i \in SpawnInputs : SpawnOpen(t, i.env, i.ptyOk, i.cmdOk)
    \/ \E t \in Threads : SpawnInsert(t)
    \/ \E t \in Threads, sid \in PtyIds \cup {UnknownId} : CloseTerminal(t, sid)

SpecSpawn == InitTerm /\ [][NextSpawn]_vars

InitWatch ==
    ops = 0 /\ InitTermVars /\ InitWatchVars /\ InitRunVars /\ InitGitVars /\ InitStatusVars

NextWatch ==
    \/ \E t \in Threads, f \in FileArgs : WatchFileLock(t, f)
    \/ \E t \in Threads, out \in IoOutcomes : WatchFileIo(t, out)
    \/ \E t \in Threads, w \in WorkspaceArgs : WatchWorkspaceLock(t, w)
    \/ \E t \in Threads, out \in IoOutcomes : WatchWorkspaceIo(t, out)
    \/ \E t \in Threads, f \in FileArgs : UnwatchFile(t, f)
    \/ \E t \in Threads : UnwatchAll(t)
    \/ \E b \in Batches : FsChange(b)

SpecWatch == InitWatch /\ [][NextWatch]_vars

InitRun ==
    ops = 0 /\ InitTermVars /\ InitWatchVars /\ InitRunVars /\ InitGitVars /\ InitStatusVars

NextRun ==
    \/ \E secs \in TimeoutSecs, plan \in ChildPlans, spawnOk \in BOOLEAN :
           RunSpawn(secs, plan, spawnOk)
    \/ ChildWriteOut
    \/ ChildWriteErr
    \/ ChildExit
    \/ WaitReturnsStatus
    \/ WaitTimesOut
    \/ KillAndReturn
    \/ CollectAndReturn

SpecRun == InitRun /\ [][NextRun]_vars

InitGit ==
    ops = 0 /\ InitTermVars /\ InitWatchVars /\ InitRunVars /\ InitGitVars /\ InitStatusVars

NextGit ==
    \/ \E op \in {"git_push", "git_pull", "git_sync"}, r \in RemoteArgs : GitCall(op, r)
    \/ \E out \in GitOutcomes : GitBranchStep(out)
    \/ \E out \in GitOutcomes : GitProbeStep(out)
    \/ \E out \in GitOutcomes : GitPushStep(out)
    \/ \E out \in GitOutcomes : GitPullStep(out)
    \/ \E out \in GitOutcomes : GitSyncPushStep(out)
    \/ \E b \in Branches : Checkout(b)
    \/ GitCommitCall
    \/ \E out \in GitOutcomes : GitCommitStep(out)
    \/ \E config \in InitConfigs : GitInitCall(config)
    \/ \E out \in GitOutcomes : GitInitStep(out)

SpecGit == InitGit /\ [][NextGit]_vars

InitStatus ==
    /\ ops = 0 /\ InitTermVars /\ InitWatchVars /\ InitRunVars /\ InitGitVars
    /\ statusIn \in StatusInputs
    /\ statusOut = NoStatus

NextStatus == GetStatus

SpecStatus == InitStatus /\ [][NextStatus]_vars

\* The steps that finish a running handler or belong to a reader thread are
\* taken by threads the operating system keeps scheduling; new commands and
\* shell events are up to the user and the shell.
FairSpecTerm ==
    /\ SpecTerm
    /\ \A t \in Threads : WF_vars(SpawnInsert(t))
    /\ \A t \in Threads : WF_vars(\E out \in {OkRes, IoError} : WriteIo(t, out))
    /\ \A p \in PtyIds : WF_vars(ReaderRead(p))
    /\ \A p \in PtyIds : WF_vars(ReaderEof(p))

(***************************************************************************)
(* Claims about terminal.rs                                                *)
(***************************************************************************)

\* C1: a write_terminal(s, data) started after close_terminal(s) returned
\* fails with "Session not found" and writes nothing; a write_terminal(s,
\* data) that finds s in the registry goes on to write exactly data to the
\* pty input of s and returns Ok.
C1_WriteAfterCloseFailsElseDelivers ==
    [][\A t \in Threads, sid \in PtyIds :
         /\ ((\E d \in Data : WriteLookup(t, sid, d)) /\ sid \in closed)
               => /\ tret' = [op |-> "write", sid |-> sid, res |-> SessionNotFound]
                  /\ tpc'[t] = "idle"
                  /\ ptyIn' = ptyIn
         /\ ((\E d \in Data : WriteLookup(t, sid, d)) /\ sid \in DOMAIN sessions)
               => tpc'[t] = "w_io"
         /\ ((\E out \in {OkRes, IoError} : WriteIo(t, out)) /\ tcall[t].sid = sid)
               => /\ tret' = [op |-> "write", sid |-> sid, res |-> OkRes]
                  /\ ptyIn' = [ptyIn EXCEPT ![sessions[sid]] = Append(@, tcall[t].data)]
      ]_vars

\* C4: no thread that is inside the blocking pty write (write_all, flush)
\* holds the sessions-registry lock, and no thread that is creating or
\* starting an OS filesystem watch holds the watchers-registry lock.
C4_NoRegistryLockAcrossBlockingIo ==
    /\ \A t \in Threads : tpc[t] = "w_io" => sessLock # t
    /\ \A t \in Threads : wpc[t] \in {"f_io", "ws_io"} => watchLock # t

\* C5: once the reader thread of a session has ended (end of stream or read
\* error), the session id eventually leaves the registry.
C5_SessionRemovedAfterReaderExit ==
    \A p \in PtyIds : (reader[p] = "done") ~> (p \notin DOMAIN sessions)

(***************************************************************************)
(* Claims about file_watcher.rs                                            *)
(***************************************************************************)
FileChangedCount(emits, filePath) ==
    Cardinality({ij \in {<<i, j>> : i \in DOMAIN emits, j \in 1..MaxOps} :
                     /\ ij[2] <= Len(emits[ij[1]])
                     /\ emits[ij[1]][ij[2]] = [name |-> "file-changed", payload |-> filePath]})

BatchNames(b, filePath) ==
    \E i \in 1..Len(b.events) : \E j \in 1..Len(b.events[i]) : b.events[i][j] = filePath

FileRegistered(filePath) ==
    /\ filePath \in DOMAIN watchers
    /\ debs[watchers[filePath]].kind = "file"

\* C2: the registry holds at most one OS watch per key (every debouncer that
\* exists is owned by exactly one key); a watch_file(p) that finds p
\* registered returns Ok, creates no debouncer and leaves registry and
\* debouncers as they are; and one change of p's file produces at most one
\* file-changed event for p, exactly one when p is registered by watch_file.
C2_OneRegistrationPerKey ==
    /\ [](/\ \A k1, k2 \in DOMAIN watchers : k1 # k2 => watchers[k1] # watchers[k2]
          /\ DOMAIN debs = {watchers[k] : k \in DOMAIN watchers})
    /\ [][\A t \in Threads, f \in FileArgs :
            (FileKey(f) \in DOMAIN watchers /\ wpc[t] = "idle" /\ WatchFileLock(t, f))
              => /\ wret' = [op |-> "watch_file", path |-> f, res |-> OkRes,
                             created |-> FALSE]
                 /\ wpc'[t] = "idle"
                 /\ watchers' = watchers /\ debs' = debs /\ nextDeb' = nextDeb
         ]_vars
    /\ [][\A b \in Batches : FsChange(b) =>
            \A f \in FileArgs :
               /\ FileChangedCount(lastEmits', f) <= 1
               /\ (FileRegistered(f) /\ BatchNames(b, f))
                    => FileChangedCount(lastEmits', f) = 1
         ]_vars

\* C2 witness: a watch_file of a registered path returned Ok without creating
\* a debouncer, and the last change of that file produced one event.
C2_Witness ==
    /\ wret = [op |-> "watch_file", path |-> PathA, res |-> OkRes, created |-> FALSE]
    /\ FileRegistered(PathA)
    /\ FileChangedCount(lastEmits, PathA) = 1

\* C6: the keys of single-file and workspace registrations never collide, so
\* unwatch_file never removes a workspace registration, and a watch call
\* that reports "already watching" found a registration of its own kind.
C6_KeyNamespacesDisjoint ==
    [][\A t \in Threads :
         /\ \A f \in FileArgs : UnwatchFile(t, f) =>
               \A k \in DOMAIN watchers :
                   debs[watchers[k]].kind = "workspace" => k \in DOMAIN watchers'
         /\ \A f \in FileArgs :
               (WatchFileLock(t, f) /\ wret'.res = OkRes /\ wpc'[t] = "idle")
                 => debs[watchers[FileKey(f)]].kind = "file"
         /\ \A w \in WorkspaceArgs :
               (WatchWorkspaceLock(t, w) /\ wret'.res = OkRes /\ wpc'[t] = "idle")
                 => debs[watchers[WorkspaceKey(w)]].kind = "workspace"
      ]_vars

\* C9: unwatch_file(p) with p absent returns "File was not being watched" and
\* changes neither registry nor debouncers; with p present it returns Ok,
\* removes exactly key p and its debouncer, and keeps every other
\* registration with its debouncer.
C9_UnwatchFileRemovesExactlyOne ==
    [][\A t \in Threads, f \in FileArgs : UnwatchFile(t, f) =>
         IF f \in DOMAIN watchers
         THEN /\ wret'.op = "unwatch_file" /\ wret'.path = f /\ wret'.res = OkRes
              /\ DOMAIN watchers' = (DOMAIN watchers) \ {f}
              /\ \A k \in DOMAIN watchers' : watchers'[k] = watchers[k]
              /\ DOMAIN debs' = (DOMAIN debs) \ {watchers[f]}
              /\ \A i \in DOMAIN debs' : debs'[i] = debs[i]
         ELSE /\ wret'.op = "unwatch_file" /\ wret'.path = f
              /\ wret'.res = WatchErrNotWatched
              /\ watchers' = watchers /\ debs' = debs
      ]_vars

\* C9 witness: unwatch_file removed one of two registrations.
C9_Witness ==
    /\ wret.op = "unwatch_file" /\ wret.res = OkRes
    /\ wret.path \notin DOMAIN watchers
    /\ DOMAIN watchers # {}
    /\ nextDeb = 2

\* C10: unwatch_all returns normally and leaves no registration and no
\* debouncer; a watch_file or watch_workspace for a key it removed goes on to
\* create a debouncer, and a successful one stores a new debouncer.
C10_UnwatchAllClearsRegistry ==
    /\ [][\A t \in Threads : UnwatchAll(t) =>
            /\ wret'.op = "unwatch_all" /\ wret'.res = OkRes
            /\ DOMAIN watchers' = {}
            /\ DOMAIN debs' = {}
         ]_vars
    /\ [][\A t \in Threads :
            /\ \A f \in FileArgs :
                 (FileKey(f) \in clearedKeys /\ FileKey(f) \notin DOMAIN watchers
                    /\ WatchFileLock(t, f))
                   => wpc'[t] = "f_io"
            /\ \A w \in WorkspaceArgs :
                 (WorkspaceKey(w) \in clearedKeys /\ WorkspaceKey(w) \notin DOMAIN watchers
                    /\ WatchWorkspaceLock(t, w))
                   => wpc'[t] = "ws_io"
            /\ (wcall[t].key \in clearedKeys
                   /\ (WatchFileIo(t, "ok") \/ WatchWorkspaceIo(t, "ok")))
                   => /\ wcall[t].key \in DOMAIN watchers'
                      /\ watchers'[wcall[t].key] \notin DOMAIN debs
                      /\ watchers'[wcall[t].key] > nextDeb
                      /\ wret'.created
         ]_vars

\* C10 witness: a key that unwatch_all removed is registered again, with a
\* debouncer created by the call that returned last.
C10_Witness ==
    /\ wret.res = OkRes /\ wret.created
    /\ \E k \in clearedKeys : k \in DOMAIN watchers /\ watchers[k] = nextDeb
    /\ wret.op = "watch_file" => FileKey(wret.path) \in clearedKeys
    /\ wret.op = "watch_workspace" => WorkspaceKey(wret.path) \in clearedKeys

(***************************************************************************)
(* Claims about git_shell.rs                                               *)
(***************************************************************************)
\* C3: when run_git_command has returned the timeout error, the error names
\* the timeout of the call in seconds, and the child is neither running nor
\* left in the process table as a terminated process nobody has waited for.
C3_TimedOutChildIsGone ==
    (rpc = "idle" /\ rret.kind = "timeout") =>
        /\ TimedOutMessage(rret.secs) = TimedOutMessage(rcall.secs)
        /\ child.state \notin {"running", "terminated"}

\* The invocation a step of the running command has just added.
LastInvocation == ginv'[Len(ginv')]

\* C7: the push of a git_push on a branch without upstream is `push -u`, and
\* once a `push -u` of git_push has succeeded for a branch, no later git_push
\* on that branch passes -u.
C7_UpstreamFlagOnlyOnFirstPush ==
    [][(gpc.op = "git_push" /\ gpc.at \in {"push", "push_u"} /\ Len(ginv') = Len(ginv) + 1) =>
          /\ gpc.branch \notin upstream =>
                LastInvocation = <<"push", "-u", gpc.remote, gpc.branch>>
          /\ gpc.branch \in tracked =>
                LastInvocation = <<"push", gpc.remote, gpc.branch>>]_vars

\* The lines of the input that git_get_status counts.
CountedLines == SelectSeq(statusIn, LAMBDA line : Len(line) >= 3)

\* Every counted line starts with three one-byte characters, as the lines of
\* `git status --porcelain` do.
PorcelainInput ==
    \A i \in 1..Len(CountedLines) : \A k \in 1..3 : ByteLen(CountedLines[i][k]) = 1

StatusExample == << <<"M", " ", " ", "a">>, <<"?", "?", " ", "b">> >>

\* C8: for porcelain input, staged_count is the number of lines of length >= 3
\* whose first character is neither a space nor '?', modified_count the number
\* of those whose second character is not a space, modified_files the
\* remainder of each such line from its fourth character on, in order, and
\* is_clean holds exactly when both counts are zero; for the lines "M  a" and
\* "?? b" the result is modified 1, staged 1, not clean, files a and b.
C8_StatusCounts ==
    (statusOut # NoStatus /\ PorcelainInput) =>
        /\ ~statusOut.panicked
        /\ statusOut.staged_count =
               Cardinality({i \in 1..Len(CountedLines) : CountedLines[i][1] \notin {" ", "?"}})
        /\ statusOut.modified_count =
               Cardinality({i \in 1..Len(CountedLines) : CountedLines[i][2] # " "})
        /\ statusOut.modified_files =
               [i \in 1..Len(CountedLines) |->
                   SubSeq(CountedLines[i], 4, Len(CountedLines[i]))]
        /\ statusOut.is_clean <=>
               (statusOut.modified_count = 0 /\ statusOut.staged_count = 0)
        /\ statusIn = StatusExample =>
               statusOut = [panicked |-> FALSE, modified_count |-> 1, staged_count |-> 1,
                            is_clean |-> FALSE, modified_files |-> << <<"a">>, <<"b">> >>]

\* C8 witness: git_get_status has parsed the two lines of the example.
C8_Witness ==
    /\ statusIn = StatusExample
    /\ statusOut # NoStatus
    /\ statusOut.modified_count = 1
    /\ statusOut.staged_count = 1

\* C11: a file-changed event carrying p is emitted for a change only while p
\* is registered by watch_file: after unwatch_file(p) returned Ok, or after
\* unwatch_all, a change produces no file-changed event for p until a later
\* watch_file(p) has registered p again.
C11_RemovalStopsTheWatch ==
    [][\A b \in Batches : FsChange(b) =>
          \A i \in DOMAIN lastEmits' : \A n \in 1..Len(lastEmits'[i]) :
              lastEmits'[i][n].name = "file-changed"
                  => FileRegistered(lastEmits'[i][n].payload)]_vars

\* C11 witness: unwatch_file(/d/a.md) has returned Ok, and a change in /d that
\* came after it was delivered to the workspace debouncer only (the debouncer
\* created first, that of /d/a.md, is gone) and produced no file-changed.
C11_Witness ==
    /\ wret = [op |-> "unwatch_file", path |-> PathA, res |-> OkRes, created |-> FALSE]
    /\ PathA \notin DOMAIN watchers
    /\ nextDeb = 2
    /\ DOMAIN debs = {2}
    /\ debs[2].dir = WsD
    /\ DOMAIN lastEmits = {2}
    /\ lastEmits[2] = <<[name |-> "workspace-changed", payload |-> NoneVal]>>

\* C12: close_terminal returns Ok for every id (registered, already closed or
\* never issued); afterwards the id is not in the registry, a close of an id
\* that is not registered leaves the registry as it is, and every other
\* session keeps its entry unaltered.
C12_CloseTerminalIdempotent ==
    [][\A t \in Threads, sid \in PtyIds \cup {UnknownId} :
          (tpc[t] = "idle" /\ CloseTerminal(t, sid)) =>
              /\ tret' = [op |-> "close", sid |-> sid, res |-> OkRes]
              /\ DOMAIN sessions' = (DOMAIN sessions) \ {sid}
              /\ \A k \in DOMAIN sessions' : sessions'[k] = sessions[k]
              /\ sid \notin DOMAIN sessions => sessions' = sessions]_vars

\* C12 witness: close_terminal has returned Ok for the id that was never
\* issued, after a close of session 1, and session 2 is still registered.
C12_Witness ==
    /\ tret = [op |-> "close", sid |-> UnknownId, res |-> OkRes]
    /\ closed = {1, UnknownId}
    /\ DOMAIN sessions = {2}

\* The terminal-output events of session p, in the order of their emission.
OutputOf(p) == SelectSeq(termEvents, LAMBDA e : e.session = p)

\* C13: for every session the terminal-output events under its name are the
\* chunks its reader thread has read from its pty, each once and in the order
\* they were read, whatever the interleaving with the other reader threads;
\* no event carries a chunk under the name of a session it was not read
\* from.
C13_OutputOrderPerSession ==
    /\ [](\A p \in PtyIds :
            OutputOf(p) = [n \in 1..consumed[p] |-> [session |-> p, chunk |-> n]])
    /\ [][\A p \in PtyIds : (consumed'[p] = consumed[p] + 1) =>
            termEvents' = Append(termEvents, [session |-> p, chunk |-> consumed'[p]])]_vars

\* C13 witness: the reader threads of two sessions have emitted interleaved
\* events: session 1, then session 2, then session 1 again.
C13_Witness ==
    /\ Len(termEvents) = 3
    /\ termEvents[1] = [session |-> 1, chunk |-> 1]
    /\ termEvents[2] = [session |-> 2, chunk |-> 1]
    /\ termEvents[3] = [session |-> 1, chunk |-> 2]

KeyOf(i) == CHOOSE k \in DOMAIN watchers : watchers[k] = i

\* Some path of some event of the batch has the file name, or ends with it,
\* after normalisation.
SomePathMatches(b, fileName) ==
    \E i \in 1..Len(b.events) : \E j \in 1..Len(b.events[i]) :
        PathMatches(b.events[i][j], fileName)

\* C15: a batch delivered to the debouncer of a single-file registration
\* produces no event when no path of the batch matches the file, and exactly
\* one file-changed event otherwise, however many paths match; the payload
\* is the path string the registration was requested with.
C15_FileBatchCoalesced ==
    [][\A b \in Batches : FsChange(b) =>
          \A i \in DOMAIN lastEmits' : debs[i].kind = "file" =>
              IF SomePathMatches(b, FileNameOf(KeyOf(i)))
              THEN lastEmits'[i] = <<[name |-> "file-changed", payload |-> KeyOf(i)]>>
              ELSE lastEmits'[i] = <<>>]_vars

\* C15 witness: the atomic save of /d/a.md, a batch in which two paths
\* match, produced one file-changed event for the registration of /d/a.md.
C15_Witness ==
    /\ FileRegistered(PathA)
    /\ watchers[PathA] \in DOMAIN lastEmits
    /\ lastEmits[watchers[PathA]] = <<[name |-> "file-changed", payload |-> PathA]>>
    /\ \E b \in Batches : /\ b.dir = WsD
                          /\ Len(b.events) > 1
                          /\ SomePathMatches(b, FileNameOf(PathA))

\* Some path of some event of the batch has the extension md.
SomePathIsMarkdown(b) ==
    \E i \in 1..Len(b.events) : \E j \in 1..Len(b.events[i]) :
        ExtensionOf(b.events[i][j]) = <<"m", "d">>

\* C16: a batch delivered to the debouncer of a workspace registration
\* produces exactly one workspace-changed event without payload when some
\* path of the batch has the extension md, and no event otherwise.
C16_WorkspaceMarkdownFilter ==
    [][\A b \in Batches : FsChange(b) =>
          \A i \in DOMAIN lastEmits' : debs[i].kind = "workspace" =>
              IF SomePathIsMarkdown(b)
              THEN lastEmits'[i] = <<[name |-> "workspace-changed", payload |-> NoneVal]>>
              ELSE lastEmits'[i] = <<>>]_vars

\* C16 witness: the workspace /d is watched, and the last batch delivered to
\* its debouncer, with a .txt file and a file without extension, produced
\* no event.
C16_Witness ==
    /\ WorkspaceKey(WsD) \in DOMAIN watchers
    /\ debs[watchers[WorkspaceKey(WsD)]].kind = "workspace"
    /\ watchers[WorkspaceKey(WsD)] \in DOMAIN lastEmits
    /\ lastEmits[watchers[WorkspaceKey(WsD)]] = <<>>
    /\ \E b \in Batches : b.dir = WsD /\ ~SomePathIsMarkdown(b)

\* C17: git_sync invokes the pull first and the push only after the pull has
\* succeeded; a failed pull ends the command with its error; and the push is
\* the push of git_push: `push -u` when the current branch has no upstream,
\* the plain push when it has one.
C17_SyncIsPullThenPush ==
    [][(gpc.op = "git_sync" /\ Len(ginv') = Len(ginv) + 1) =>
          /\ LastInvocation[1] = "pull" =>
                /\ \A n \in 1..Len(ginv) : ginv[n][1] # "push"
                /\ (gpc'.op = "git_sync" \/ gret'.res # OkRes)
          /\ LastInvocation[1] = "push" =>
                /\ ginv[Len(ginv)] = <<"pull", gpc.remote, gpc.branch>>
                /\ LastInvocation =
                       IF gpc.branch \in upstream
                       THEN <<"push", gpc.remote, gpc.branch>>
                       ELSE <<"push", "-u", gpc.remote, gpc.branch>>]_vars

\* The invocations of the large-file-tracking setup of git_initialize.
LfsInvocations ==
    {<<"lfs", "install">>, <<"lfs", "track", "workspace/.images/**">>,
     <<"add", ".gitattributes">>}

\* The invocations of git_initialize outside the large-file-tracking setup,
\* in order, for a configuration.
NonLfsSequence(config) ==
    << <<"init">>, <<"config", "user.name", "user_name">>,
       <<"config", "user.email", "user_email">>, <<"add", "-A">>,
       <<"commit", "-m", "Initial commit">>, <<"branch", "-M", config.branch_name>> >>
      \o (IF config.remote_url = "" THEN <<>>
          ELSE << <<"remote", "add", config.remote_name, config.remote_url>>,
                  <<"push", "-u", config.remote_name, config.branch_name>> >>)

NonLfsOf(invs) == SelectSeq(invs, LAMBDA inv : inv \notin LfsInvocations)

\* C18: no outcome of `lfs install`, `lfs track` or `add .gitattributes` ends
\* git_initialize: after each of them the command is still running, and a
\* failed one is followed by `add -A`.  When git_initialize has returned, the
\* invocations outside the LFS setup are the ones of a run whose LFS steps
\* succeeded: a prefix of the fixed sequence that ends with the step that
\* failed, or the whole sequence when the result is Ok.
C18_LfsSetupIsSoft ==
    /\ [][\A out \in GitOutcomes :
            (gpc.op = "git_initialize" /\ gpc.at \in LfsSteps /\ GitInitStep(out)) =>
                /\ gpc'.op = "git_initialize"
                /\ gret' = gret
                /\ gpc'.at \in LfsSteps \cup {"i_add"}
                /\ out # "ok" => gpc'.at = "i_add"]_vars
    /\ []((gpc.at = "idle" /\ gret.op = "git_initialize") =>
            /\ ginv[Len(ginv)] \notin LfsInvocations
            /\ \E config \in InitConfigs :
                  LET all == NonLfsSequence(config)
                      done == NonLfsOf(ginv)
                  IN  /\ Len(done) <= Len(all)
                      /\ done = SubSeq(all, 1, Len(done))
                      /\ gret.res = OkRes => done = all)

\* C18 witness: git_initialize has returned Ok although `lfs install`
\* failed: `lfs track` was never run, `add -A` and the rest were.
C18_Witness ==
    /\ gpc.at = "idle"
    /\ gret = [op |-> "git_initialize", res |-> OkRes]
    /\ Len(ginv) = 7
    /\ ginv[4] = <<"lfs", "install">>
    /\ ginv[5] = <<"add", "-A">>

\* The invocations of git_commit, in order.
CommitSequence ==
    << <<"config", "user.name", "author_name">>, <<"config", "user.email", "author_email">>,
       <<"add", "-A">>, <<"commit", "-m", "message">>, <<"rev-parse", "HEAD">> >>

\* C19: the invocations of git_commit are a prefix of: configure user.name,
\* configure user.email, add -A, commit, rev-parse HEAD.  A step that fails
\* ends the command with that step's error and nothing is invoked after it;
\* the command returns the trimmed revision only after all five steps.
C19_CommitStepsInOrder ==
    /\ []((gpc.op = "git_commit" \/ (gpc.at = "idle" /\ gret.op = "git_commit")) =>
            /\ Len(ginv) <= Len(CommitSequence)
            /\ ginv = SubSeq(CommitSequence, 1, Len(ginv)))
    /\ []((gpc.at = "idle" /\ gret.op = "git_commit" /\ gret.res = "revision") =>
            ginv = CommitSequence)
    /\ [][\A out \in GitOutcomes : (gpc.op = "git_commit" /\ GitCommitStep(out)) =>
            IF out # "ok"
            THEN gpc' = NoGpc /\ gret' = [op |-> "git_commit", res |-> ErrOf(out)]
            ELSE IF Len(ginv') = Len(CommitSequence)
            THEN gpc' = NoGpc /\ gret' = [op |-> "git_commit", res |-> "revision"]
            ELSE gpc'.op = "git_commit" /\ gret' = gret]_vars

\* C19 witness: git_commit has returned the error of a failed `add -A`; no
\* commit was invoked.
C19_Witness ==
    /\ gpc.at = "idle"
    /\ gret = [op |-> "git_commit", res |-> "git error"]
    /\ Len(ginv) = 3
    /\ ginv[3] = <<"add", "-A">>

\* C20: a spawn_terminal whose pty was opened launches the value of $SHELL
\* when it is non-empty and exists on disk; otherwise zsh when it is on the
\* search path, else bash, else sh; and with none of them it returns the
\* "No suitable shell found" error, adds no session, launches no shell and
\* starts no reader thread.
C20_ShellResolution ==
    [][(nextId' = nextId + 1) =>
          \A t \in Threads : (tpc[t] = "idle") =>
              \A inp \in SpawnInputs :
                  (inp.ptyOk /\ inp.cmdOk /\ SpawnOpen(t, inp.env, inp.ptyOk, inp.cmdOk)) =>
                      LET launched(sh) == tpc'[t] = "s_insert" /\ tcall'[t].shellName = sh
                      IN  IF inp.env.shellVar = "exists" THEN launched("$SHELL")
                          ELSE IF "zsh" \in inp.env.onPath THEN launched("zsh")
                          ELSE IF "bash" \in inp.env.onPath THEN launched("bash")
                          ELSE IF "sh" \in inp.env.onPath THEN launched("sh")
                          ELSE /\ tret' = [op |-> "spawn", sid |-> nextId',
                                           res |-> NoShellFound]
                               /\ tpc'[t] = "idle"
                               /\ sessions' = sessions
                               /\ shell' = shell
                               /\ reader' = reader]_vars

\* C20 witness: the first spawn_terminal has failed for want of a shell and
\* left no session, shell or reader behind; the second one has launched sh,
\* the last fallback.
C20_Witness ==
    /\ tret = [op |-> "spawn", sid |-> 1, res |-> NoShellFound]
    /\ 1 \notin DOMAIN sessions
    /\ shell[1] = "none" /\ reader[1] = "none"
    /\ \E t \in Threads : tpc[t] = "s_insert" /\ tcall[t].sid = 2 /\ tcall[t].shellName = "sh"

\* A running child that still has bytes to write and finds every pipe it
\* writes to full: nothing reads the pipes before wait_with_output
\* (git_shell.rs:51-53), so such a child can never reach its exit.
BlockedOnFullPipe(c) ==
    /\ c.outLeft + c.errLeft > 0
    /\ c.outLeft > 0 => c.outDone = PipeCap
    /\ c.errLeft > 0 => c.errDone = PipeCap

\* C21: run_git_command returns the exit outcome of a child whatever the
\* number of bytes it writes to its piped stdout and stderr, more than the
\* pipe's capacity included: a child is never killed for a timeout while all
\* that kept it from exiting was a full pipe that nobody read.
C21_OutputVolumeNeverCausesTimeout ==
    (child.term = "killed" /\ rret.kind = "timeout") => ~BlockedOnFullPipe(child)

(***************************************************************************)
(* Claims about concurrent and failed registrations (file_watcher.rs)      *)
(***************************************************************************)
\* The threads between the contains_key check and the insert of a watch call.
Registering == {t \in Threads : wpc[t] \in {"f_io", "ws_io"}}

\* The registry key a returned watch call was about.
ReturnedKey(r) ==
    IF r.op = "watch_workspace" THEN WorkspaceKey(r.path) ELSE FileKey(r.path)

\* C22: the check and the insert of a watch registration are one atomic
\* step with respect to the other callers.  At most one caller is between
\* its check and its insert, and the key it found absent is still absent; a
\* registration that succeeds inserts under a key that holds nothing,
\* returns Ok and replaces or drops no debouncer; a concurrent caller that
\* gets the lock afterwards and finds the key returns Ok without creating a
\* watch; and every debouncer alive is the one registration of one key.
C22_CheckThenInsertAtomic ==
    /\ [](/\ Cardinality(Registering) <= 1
          /\ \A t \in Registering : wcall[t].key \notin DOMAIN watchers
          /\ \A k1, k2 \in DOMAIN watchers : watchers[k1] = watchers[k2] => k1 = k2
          /\ DOMAIN debs = {watchers[k] : k \in DOMAIN watchers})
    /\ [][\A t \in Threads :
            (t \in Registering /\ wpc'[t] = "idle" /\ nextDeb' # nextDeb
               /\ wret'.res = OkRes)
                 => /\ wcall[t].key \notin DOMAIN watchers
                    /\ DOMAIN watchers' = (DOMAIN watchers) \cup {wcall[t].key}
                    /\ watchers'[wcall[t].key] \notin DOMAIN debs
                    /\ \A k \in DOMAIN watchers : watchers'[k] = watchers[k]
                    /\ \A i \in DOMAIN debs : i \in DOMAIN debs' /\ debs'[i] = debs[i]
                    /\ wret'.created
         ]_vars
    /\ [][(wpc' = wpc /\ ops' # ops
              /\ wret'.op \in {"watch_file", "watch_workspace"}
              /\ ReturnedKey(wret') \in DOMAIN watchers)
             => /\ wret'.res = OkRes /\ ~wret'.created
                /\ watchers' = watchers /\ debs' = debs /\ nextDeb' = nextDeb
         ]_vars

\* C22 witness: two calls for the same path; the first created and inserted
\* the one debouncer, the second, which got the lock after it, returned Ok
\* without creating one, and a third is between its check and its insert for
\* another key.
C22_Witness ==
    /\ nextDeb = 1
    /\ DOMAIN watchers = {FileKey(PathA)} /\ watchers[FileKey(PathA)] = 1
    /\ wret = [op |-> "watch_file", path |-> PathA, res |-> OkRes, created |-> FALSE]
    /\ Cardinality(Registering) = 1

\* Some path of some event of the batch has, after normalisation, the file
\* name component `fileName`.
SomePathNames(b, fileName) ==
    \E i \in 1..Len(b.events) : \E j \in 1..Len(b.events[i]) :
        /\ FileNameOf(b.events[i][j]) # NoneVal
        /\ Nfc(FileNameOf(b.events[i][j])) = Nfc(fileName)

\* C23: a batch produces file-changed for the registration of a path only
\* if some event path of the batch has that path's file name as its file
\* name component (after NFC normalisation); a batch that names only other
\* files of the directory, files whose names end with the registered file's
\* name included, produces nothing.
C23_NoEventForSiblingFiles ==
    [][\A b \in Batches : FsChange(b) =>
          \A i \in DOMAIN lastEmits' : debs[i].kind = "file" =>
              (lastEmits'[i] # <<>> => SomePathNames(b, debs[i].fileName))]_vars

\* The errors of watch_file and watch_workspace.
WatchErrors ==
    {WatchErrNoParent, WatchErrInvalid, WatchErrCreateFile, WatchErrWatchDir,
     WatchErrCreateWs, WatchErrWatchWs}

\* The last call that returned was a watch call that failed.
WatchFailed(r) == r.op \in {"watch_file", "watch_workspace"} /\ r.res \in WatchErrors

\* C24: a watch_file or watch_workspace that returns an error leaves the
\* registry as it was: its key is not registered, every registration and
\* every debouncer that existed is unchanged, and the caller does not hold
\* the lock; and while the key stays unregistered, a later call for the
\* same key does not report "already watching" but goes through the
\* registration again.
C24_FailedWatchLeavesRegistryUnchanged ==
    /\ [][((wpc' # wpc \/ ops' # ops) /\ (\A t \in Threads : wpc'[t] = wpc[t] \/ wpc'[t] = "idle")
              /\ WatchFailed(wret'))
             => /\ ReturnedKey(wret') \notin DOMAIN watchers'
                /\ watchers' = watchers
                /\ debs' = debs
                /\ \A t \in Threads : wpc'[t] = "idle" => watchLock' # t
         ]_vars
    /\ [][(WatchFailed(wret) /\ ReturnedKey(wret) \notin DOMAIN watchers) =>
             \A t \in Threads :
                (wpc[t] = "idle" /\
                   IF wret.op = "watch_file" THEN WatchFileLock(t, wret.path)
                   ELSE WatchWorkspaceLock(t, wret.path))
                  => IF wret.res \in {WatchErrNoParent, WatchErrInvalid}
                     THEN wpc'[t] = "idle" /\ wret' = wret
                     ELSE wpc'[t] \in {"f_io", "ws_io"} /\ wcall'[t].key = ReturnedKey(wret)
         ]_vars

\* C24 witness: with the workspace registered, the watch of the directory of
\* /d/a.md failed after the debouncer was created; the workspace
\* registration is all the registry holds, and a second watch_file for
\* /d/a.md is between its check and its insert.
C24_Witness ==
    /\ wret = [op |-> "watch_file", path |-> PathA, res |-> WatchErrWatchDir,
               created |-> TRUE]
    /\ DOMAIN watchers = {WorkspaceKey(WsD)}
    /\ DOMAIN debs = {watchers[WorkspaceKey(WsD)]}
    /\ \E t \in Registering : wcall[t].key = FileKey(PathA)

====
